---- MODULE Spec2Model ----
(***************************************************************************)
(* Verification model of mixlab's RTMP ingest and fragmented-MP4 muxer.    *)
(*                                                                         *)
(*   mux/src/mp4.rs    Mp4Mux::new, Mp4Mux::write_track, make_media_segment *)
(*   src/rtmp/mod.rs   run_receive_thread, handle_session_results,         *)
(*                     handle_event, receive_audio_packet,                 *)
(*                     receive_video_packet                                *)
(*   src/video.rs      Frame, FrameId                                      *)
(*                                                                         *)
(* The specifications share the variables: MuxSpec drives one Mp4Mux, Spec *)
(* the receive loop of one accepted connection, FrameSpec the handles of   *)
(* the frames, AcceptSpec the connections being accepted.                  *)
(***************************************************************************)
EXTENDS Integers, Sequences, FiniteSets, TLC

VARIABLES
    \* ---- Mp4Mux (mux/src/mp4.rs:17-22) ----
    sequence,        \* Mp4Mux.sequence : u32
    timescale,       \* Mp4Mux.timescale : u32
    audio_time,      \* Mp4Mux.audio_time : MediaTime
    video_time,      \* Mp4Mux.video_time : MediaTime
    mux_pc,          \* "active" | "panic" (write_track unwound)
    segment,         \* the MediaSegment returned by the last write_track, <<>> before
    calls,           \* number of write_track calls made
    track_data,      \* the TrackData of the last write_track call, <<>> before
    given,           \* per track: sum of the durations handed to write_track
    emitted,         \* per track: sum of the trun sample durations emitted
    last_frag        \* per track: <<base_media_decode_time, duration>> of the
                     \* latest fragment of that track, <<>> before the first

VARIABLES
    \* ---- ReceiveContext and receive loop (src/rtmp/mod.rs:106-136) ----
    pc,               \* "reading" | "dispatching" | "ok" | "err" | "panic"
    err,              \* the RtmpError the loop returned, "none" otherwise
    actions,          \* session results of the current read not yet handled
    meta,             \* ctx.meta : Option<StreamMeta>
    audio_asc,        \* ctx.audio_asc : Option<AudioSpecificConfiguration>
    audio_timestamp,  \* ctx.audio_timestamp : Timestamp
    video_dcr,        \* ctx.video_dcr : Option<Arc<DecoderConfigurationRecord>>
    video_dcr_bytes,  \* ctx.video_dcr_bytes : Option<Bytes>
    video_key_frame,  \* ctx.video_key_frame : Option<Arc<video::Frame>>
    heap,             \* the video::Frame allocations made so far, by pointer
    audio_writes,     \* calls of ctx.source.write_audio, in order
    video_writes,     \* calls of ctx.source.write_video, in order
    outbound,         \* number of outbound responses written to the peer
    nhandled,         \* number of session results handled so far
    ev,               \* the session result handled last and what became of it
    last_read,        \* what the last read of the loop gave: "none" | "eof" |
                      \* "io_error" | "session_error" | "bytes"
    twin              \* audio_asc, audio_timestamp and write_audio calls of a
                      \* second run of the connection that is fed the same
                      \* audio packets under other RTMP timestamps

rtmpvars == <<pc, err, actions, meta, audio_asc, audio_timestamp, video_dcr,
              video_dcr_bytes, video_key_frame, heap, audio_writes,
              video_writes, outbound, nhandled, ev, last_read, twin>>

VARIABLES
    \* ---- frame handles (src/video.rs) ----
    f_heap,           \* address -> the Frame allocated there, None when free
    f_arcs,           \* address -> number of Arc<Frame> handles held on it
    f_ids,            \* the FrameId values held
    f_next            \* serial number of the next allocation

framevars == <<f_heap, f_arcs, f_ids, f_next>>

VARIABLES
    \* ---- accept and the mountpoint registry (src/rtmp/mod.rs:29-104) ----
    a_pc,             \* per connection: the step accept is at
    a_result,         \* per connection: what accept returned, "none" before
    a_publish,        \* per connection: "pending", "none" (no publish request)
                      \* or the app_name the client wants to publish on
    a_log,            \* per connection: what accept has done so far, in order
    a_loop,           \* per connection: "none" | "running" | "ended"
    mounts            \* MOUNTPOINTS: name -> "unregistered" | "listening" |
                      \* "claimed"

acceptvars == <<a_pc, a_result, a_publish, a_log, a_loop, mounts>>

VARIABLES
    \* ---- the receive threads of several connections (src/rtmp/mod.rs) ----
    ctxs,             \* per connection: the session fields of its
                      \* ReceiveContext and whether its loop still runs
    dump_h264,        \* the file "dump.h264": per bitstream appended, the
                      \* connection whose thread appended it
    steps,            \* number of session events handled, all connections
    actor             \* the connection whose thread handled the last event

connvars == <<ctxs, dump_h264, steps, actor>>

muxvars == <<sequence, timescale, audio_time, video_time, mux_pc, segment,
             calls, track_data, given, emitted, last_frag>>

----------------------------------------------------------------------------
(* Bounds of the model *)

MaxCalls == 4

\* timescales handed to Mp4Mux::new (Mp4Params.timescale)
Timescales == {1, 3, 1000}

\* nominal frame durations handed to write_track, as <<numer, denom>>
Durations == {<<0, 1>>, <<1, 2>>, <<1, 3>>, <<1024, 44100>>}

\* lengths of the ADTS frame of an audio TrackData (7 = header only)
AdtsLens == {3, 7, 9}

\* lengths of the payload of a video TrackData
AvcLens == {0, 5}

\* composition times of a video TrackData, as <<numer, denom>>
CompositionTimes == {<<0, 1>>, <<1, 30>>}

\* session results handled by one connection, and per read
MaxEvents == 4
MaxBatch == 2

\* kinds of ServerSessionResult / ServerSessionEvent
ResultKinds == {"Outbound", "Unhandleable", "Audio", "Video", "Metadata", "Other"}

\* RtmpTimestamp values of the packets
RtmpTimestamps == {40}

\* RTMP timestamps the same packets carry in the second run
TwinTimestamps == {90, 7000}

\* metadata.video_frame_rate values, in thousandths of a frame per second
FrameRates == {25000, 23976}

\* audio specific configurations and decoder configuration records a
\* sequence header can carry
Ascs == {1}
DcrIds == {1, 2}

\* length of packet.data once the packet (and its DCR) has been parsed
VideoLens == {0, 10, 50}

\* sample rates the AAC decoder reports
SampleRates == {44100, 48000}

\* addresses the allocator has, allocations made, handles per frame
MaxAddr == 2
MaxAllocs == 3
MaxArcs == 2

\* connections accepted side by side
MaxConns == 2

\* session events handled by the connections' threads, all together
MaxConnEvents == 4

\* mountpoint names a client can ask for
MountNames == {"my_stream_endpoint", "other"}

\* field values a Frame is built with
FrameValues == {1, 2}

----------------------------------------------------------------------------
(* Option<T>: None is the empty sequence, Some(x) the one-element sequence *)

None == <<>>
Some(x) == <<x>>
IsSome(o) == Len(o) = 1
Unwrap(o) == o[1]

(* The casts `as u32` and `as i32` of an i64.  TLC's integers are the i32  *)
(* range, on which `as i32` changes nothing and `as u32` changes nothing   *)
(* for a non-negative value; the times and sizes of this model are         *)
(* non-negative and far below 2^31.                                        *)
AsU32(x) == x

AsI32(x) == x

----------------------------------------------------------------------------
(* Rational arithmetic: num_rational::Ratio<i64>, kept reduced with a      *)
(* positive denominator.                                                   *)

Abs(x) == IF x < 0 THEN -x ELSE x

RECURSIVE Gcd(_, _)
Gcd(a, b) == IF b = 0 THEN a ELSE Gcd(b, a % b)

RatNew(n, d) ==
    LET g == Gcd(Abs(n), Abs(d))
        s == IF d < 0 THEN -1 ELSE 1
    IN  <<(s * n) \div g, (s * d) \div g>>

RatAdd(a, b) == RatNew(a[1] * b[2] + b[1] * a[2], a[2] * b[2])

RatLe(a, b) == a[1] * b[2] <= b[1] * a[2]

RatRecip(a) == RatNew(a[2], a[1])

(* MediaTime / MediaDuration (mixlab_util::time): a rational number of     *)
(* seconds.                                                                 *)
MediaTimeNew(n, d) == RatNew(n, d)

MediaTimeAdd(t, d) == RatAdd(t, d)

(* MediaTime::round_to_base: the time in ticks of `base`, rounded to the   *)
(* nearest integer, halves away from zero.                                  *)
RoundToBase(t, base) ==
    LET n == t[1] * base
        d == t[2]
    IN  IF n >= 0 THEN (2 * n + d) \div (2 * d)
                  ELSE -((2 * (-n) + d) \div (2 * d))

----------------------------------------------------------------------------
(* ISO BMFF box sizes as mse_fmp4 serializes them (Mp4Box::box_size):      *)
(* 8 bytes of header, 4 more for a full box, then the payload.  Optional   *)
(* fields take room only when present; their value does not matter.        *)

AUDIO_TRACK == 1
VIDEO_TRACK == 2

OptSize(o, n) == IF IsSome(o) THEN n ELSE 0

SampleSize(s) ==
    OptSize(s.duration, 4) + OptSize(s.size, 4)
    + OptSize(s.flags, 4) + OptSize(s.composition_time_offset, 4)

RECURSIVE SamplesSize(_)
SamplesSize(ss) ==
    IF ss = <<>> THEN 0 ELSE SampleSize(Head(ss)) + SamplesSize(Tail(ss))

MfhdBoxSize(b) == 8 + 4 + 4

TfhdBoxSize(b) ==
    8 + 4 + 4
    + OptSize(b.base_data_offset, 8) + OptSize(b.sample_description_index, 4)
    + OptSize(b.default_sample_duration, 4) + OptSize(b.default_sample_size, 4)
    + OptSize(b.default_sample_flags, 4)

TfdtBoxSize(b) == 8 + 4 + 4

TrunBoxSize(b) ==
    8 + 4 + 4
    + OptSize(b.data_offset, 4) + OptSize(b.first_sample_flags, 4)
    + SamplesSize(b.samples)

TrafBoxSize(b) ==
    8 + TfhdBoxSize(b.tfhd_box) + OptSize(b.tfdt_box, TfdtBoxSize(b.tfdt_box))
    + TrunBoxSize(b.trun_box)

RECURSIVE TrafBoxesSize(_)
TrafBoxesSize(bs) ==
    IF bs = <<>> THEN 0 ELSE TrafBoxSize(Head(bs)) + TrafBoxesSize(Tail(bs))

MoofBoxSize(b) == 8 + MfhdBoxSize(b.mfhd_box) + TrafBoxesSize(b.traf_boxes)

----------------------------------------------------------------------------
(* make_media_segment, mux/src/mp4.rs:225-347 *)

\* variant: the start is cut down to a whole tick
TimeStartTruncated(time, ts) == (time[1] * ts) \div time[2]

\* time_start_in_mux_base (238, 289)
TimeStartInMuxBase(time, ts) == RoundToBase(time, ts)

\* variant: the duration is taken off the accumulator
TimeEndBackwards(time, duration) ==
    MediaTimeAdd(time, <<-duration[1], duration[2]>>)

\* time_end (239, 290)
TimeEnd(time, duration) == MediaTimeAdd(time, duration)

\* variant: the duration is rounded on its own, whatever the accumulated time
DurationRoundedAlone(time, duration, ts) == RoundToBase(duration, ts)

\* duration_in_mux_base (240-241, 291-292)
DurationInMuxBase(time, duration, ts) ==
    RoundToBase(TimeEnd(time, duration), ts) - TimeStartInMuxBase(time, ts)

TfhdBox(track) ==
    [track_id |-> track,
     duration_is_empty |-> FALSE,
     default_base_is_moof |-> TRUE,
     base_data_offset |-> None,
     sample_description_index |-> None,
     default_sample_duration |-> None,
     default_sample_size |-> None,
     default_sample_flags |-> None]

\* audio_frag (244-268); raw_len is the length of adts_frame.0[7..]
AudioFrag(time, duration, ts, raw_len) ==
    [tfhd_box |-> TfhdBox(AUDIO_TRACK),
     tfdt_box |-> Some([base_media_decode_time |->
                          AsU32(TimeStartInMuxBase(time, ts))]),
     trun_box |->
        [data_offset |-> Some(0),
         first_sample_flags |-> None,
         samples |-> << [duration |-> Some(AsU32(DurationInMuxBase(time, duration, ts))),
                         size |-> Some(AsU32(raw_len)),
                         composition_time_offset |-> None,
                         flags |-> None] >>]]

\* variant: the sync flag follows the key-frame flag instead of negating it
VideoSampleFlagsSync(is_key_frame) ==
    [is_leading |-> 0,
     sample_depends_on |-> 1,
     sample_is_non_sync_sample |-> is_key_frame,
     sample_is_depdended_on |-> 0,
     sample_has_redundancy |-> 0,
     sample_padding_value |-> 0,
     sample_degradation_priority |-> 0]

\* sample_flags (276-287)
VideoSampleFlags(is_key_frame) ==
    [is_leading |-> 0,
     sample_depends_on |-> 1,
     sample_is_non_sync_sample |-> ~is_key_frame,
     sample_is_depdended_on |-> 0,
     sample_has_redundancy |-> 0,
     sample_padding_value |-> 0,
     sample_degradation_priority |-> 0]

\* video_frag (295-319)
VideoFrag(time, duration, ts, avc_frame) ==
    [tfhd_box |-> TfhdBox(VIDEO_TRACK),
     tfdt_box |-> Some([base_media_decode_time |->
                          AsU32(TimeStartInMuxBase(time, ts))]),
     trun_box |->
        [data_offset |-> Some(0),
         first_sample_flags |-> None,
         samples |-> << [duration |-> Some(AsU32(DurationInMuxBase(time, duration, ts))),
                         size |-> Some(AsU32(avc_frame.len)),
                         composition_time_offset |->
                            Some(AsI32(RoundToBase(avc_frame.composition_time, ts))),
                         flags |-> Some(VideoSampleFlags(avc_frame.is_key_frame))] >>]]

\* variant: a number is skipped
NextSequenceSkipping(seq) == seq + 2

\* mux.sequence += 1 (331)
NextSequence(seq) == seq + 1

\* segment before the offset is patched (327-338)
MediaSegment(seq, traf, mdat_len) ==
    [moof_box |-> [mfhd_box |-> [sequence_number |-> seq],
                   traf_boxes |-> <<traf>>],
     mdat_boxes |-> << [len |-> mdat_len] >>]

\* variant: the placeholder is left in
PatchDataOffsetSkipped(seg) == seg

\* moof_size and the patch of trun.data_offset (340-344)
PatchDataOffset(seg) ==
    LET moof_size == MoofBoxSize(seg.moof_box)
    IN  [seg EXCEPT !.moof_box.traf_boxes[1].trun_box.data_offset =
                        Some(AsI32(moof_size) + 8)]

Traf(seg) == seg.moof_box.traf_boxes[1]

TrunSample(seg) == Traf(seg).trun_box.samples[1]

\* bookkeeping of what a returned segment adds to its track's history
Account(track, duration, seg) ==
    /\ given' = [given EXCEPT ![track] = RatAdd(@, duration)]
    /\ emitted' = [emitted EXCEPT ![track] = @ + Unwrap(TrunSample(seg).duration)]
    /\ last_frag' = [last_frag EXCEPT ![track] =
            << Unwrap(Traf(seg).tfdt_box).base_media_decode_time,
               Unwrap(TrunSample(seg).duration) >>]

Tracks == {AUDIO_TRACK, VIDEO_TRACK}

\* Mp4Mux::new (49-60)
MuxNew(ts) ==
    /\ sequence = 0
    /\ timescale = ts
    /\ audio_time = MediaTimeNew(0, 1)
    /\ video_time = MediaTimeNew(0, 1)
    /\ mux_pc = "active"
    /\ segment = None
    /\ calls = 0
    /\ track_data = None
    /\ given = [t \in Tracks |-> <<0, 1>>]
    /\ emitted = [t \in Tracks |-> 0]
    /\ last_frag = [t \in Tracks |-> <<>>]

\* write_track with TrackData::Audio whose ADTS frame is shorter than the
\* 7 header bytes: the slice at 236 panics before anything is changed
WriteTrackAudioShort ==
    /\ mux_pc = "active"
    /\ calls < MaxCalls
    /\ \E adts_len \in AdtsLens :
          /\ adts_len < 7
          /\ mux_pc' = "panic"
          /\ segment' = None
          /\ track_data' = Some([kind |-> "Audio", len |-> adts_len])
          /\ calls' = calls + 1
          /\ UNCHANGED <<sequence, timescale, audio_time, video_time,
                         given, emitted, last_frag>>

\* write_track with TrackData::Audio (62-66, 235-274, 327-346)
WriteTrackAudio ==
    /\ mux_pc = "active"
    /\ calls < MaxCalls
    /\ \E duration \in Durations, adts_len \in AdtsLens :
          /\ adts_len >= 7
          /\ LET raw_len == adts_len - 7
                 traf == AudioFrag(audio_time, duration, timescale, raw_len)
                 seq == NextSequence(sequence)
                 seg == PatchDataOffset(MediaSegment(seq, traf, raw_len))
             IN  /\ audio_time' = TimeEnd(audio_time, duration)
                 /\ sequence' = seq
                 /\ segment' = Some(seg)
                 /\ Account(AUDIO_TRACK, duration, seg)
          /\ track_data' = Some([kind |-> "Audio", len |-> adts_len])
          /\ calls' = calls + 1
          /\ UNCHANGED <<timescale, video_time, mux_pc>>

\* variant: video is timed on the audio accumulator
WriteTrackVideoOnAudioClock ==
    /\ mux_pc = "active"
    /\ calls < MaxCalls
    /\ \E duration \in Durations, len \in AvcLens,
          ct \in CompositionTimes, key \in BOOLEAN :
          /\ LET avc_frame == [is_key_frame |-> key, composition_time |-> ct,
                               len |-> len]
                 traf == VideoFrag(audio_time, duration, timescale, avc_frame)
                 seq == NextSequence(sequence)
                 seg == PatchDataOffset(MediaSegment(seq, traf, len))
             IN  /\ audio_time' = TimeEnd(audio_time, duration)
                 /\ sequence' = seq
                 /\ segment' = Some(seg)
                 /\ Account(VIDEO_TRACK, duration, seg)
                 /\ track_data' = Some([kind |-> "Video"] @@ avc_frame)
          /\ calls' = calls + 1
          /\ UNCHANGED <<timescale, video_time, mux_pc>>

\* write_track with TrackData::Video (62-66, 275-324, 327-346)
WriteTrackVideo ==
    /\ mux_pc = "active"
    /\ calls < MaxCalls
    /\ \E duration \in Durations, len \in AvcLens,
          ct \in CompositionTimes, key \in BOOLEAN :
          /\ LET avc_frame == [is_key_frame |-> key, composition_time |-> ct,
                               len |-> len]
                 traf == VideoFrag(video_time, duration, timescale, avc_frame)
                 seq == NextSequence(sequence)
                 seg == PatchDataOffset(MediaSegment(seq, traf, len))
             IN  /\ video_time' = TimeEnd(video_time, duration)
                 /\ sequence' = seq
                 /\ segment' = Some(seg)
                 /\ Account(VIDEO_TRACK, duration, seg)
                 /\ track_data' = Some([kind |-> "Video"] @@ avc_frame)
          /\ calls' = calls + 1
          /\ UNCHANGED <<timescale, audio_time, mux_pc>>

----------------------------------------------------------------------------
(* The receive loop of one connection, src/rtmp/mod.rs:124-359 *)

\* the record kept of the session result handled last
Ev(kind, packet, decoded, outcome) ==
    [kind |-> kind, packet |-> packet, decoded |-> decoded, outcome |-> outcome,
     \* what DecoderConfigurationRecord::parse gave for a sequence header
     dcr_parse |-> None,
     \* metadata.video_frame_rate of a StreamMetadataChanged event
     frame_rate |-> None]

\* ReceiveContext as accept builds it (85-97)
RtmpNew ==
    /\ pc = "reading"
    /\ err = "none"
    /\ actions = <<>>
    /\ meta = None
    /\ audio_asc = None
    /\ audio_timestamp = RatNew(0, 1)
    /\ video_dcr = None
    /\ video_dcr_bytes = None
    /\ video_key_frame = None
    /\ heap = <<>>
    /\ audio_writes = <<>>
    /\ video_writes = <<>>
    /\ outbound = 0
    /\ nhandled = 0
    /\ ev = Ev("None", "", FALSE, "ok")
    /\ last_read = "none"
    /\ twin = [audio_asc |-> None,
               audio_timestamp |-> RatNew(0, 1),
               audio_writes |-> <<>>]

ctxvars == <<meta, audio_asc, audio_timestamp, video_dcr, video_dcr_bytes,
             video_key_frame, heap, audio_writes, video_writes, twin>>

Batches == UNION {[1..k -> ResultKinds] : k \in 0..MaxBatch}

\* run_receive_thread: read returns 0 (126-129)
ReadEof ==
    /\ pc = "reading"
    /\ pc' = "ok"
    /\ last_read' = "eof"
    /\ UNCHANGED <<err, actions, ctxvars, outbound, nhandled, ev>>

\* variant: the connection is also looked at between two session results
ReadIoErrorAnytime ==
    /\ pc \in {"reading", "dispatching"}
    /\ pc' = "err"
    /\ err' = "Io"
    /\ last_read' = "io_error"
    /\ UNCHANGED <<actions, ctxvars, outbound, nhandled, ev>>

\* run_receive_thread: read fails (126)
ReadIoError ==
    /\ pc = "reading"
    /\ pc' = "err"
    /\ err' = "Io"
    /\ last_read' = "io_error"
    /\ UNCHANGED <<actions, ctxvars, outbound, nhandled, ev>>

\* run_receive_thread: handle_input fails (131)
ReadSessionError ==
    /\ pc = "reading"
    /\ pc' = "err"
    /\ err' = "Session"
    /\ last_read' = "session_error"
    /\ UNCHANGED <<actions, ctxvars, outbound, nhandled, ev>>

\* variant: a read that yields no session result ends the loop
ReadBatchEndingOnEmpty ==
    /\ pc = "reading"
    /\ \E batch \in Batches :
          /\ nhandled + Len(batch) <= MaxEvents
          /\ actions' = batch
          /\ pc' = IF batch = <<>> THEN "ok" ELSE "dispatching"
    /\ last_read' = "bytes"
    /\ UNCHANGED <<err, ctxvars, outbound, nhandled, ev>>

\* run_receive_thread: a nonzero read decoded into session results (130-132)
ReadBatch ==
    /\ pc = "reading"
    /\ \E batch \in Batches :
          /\ nhandled + Len(batch) <= MaxEvents
          /\ actions' = batch
          /\ pc' = IF batch = <<>> THEN "reading" ELSE "dispatching"
    /\ last_read' = "bytes"
    /\ UNCHANGED <<err, ctxvars, outbound, nhandled, ev>>

\* the for loop of handle_session_results goes on, or returns Ok to the read
Continue ==
    /\ actions' = Tail(actions)
    /\ pc' = IF Tail(actions) = <<>> THEN "reading" ELSE "dispatching"
    /\ err' = err
    /\ nhandled' = nhandled + 1
    /\ last_read' = last_read

\* variant: the error is noted and the rest of the batch is still handled
FailSkipping(e) ==
    /\ actions' = Tail(actions)
    /\ pc' = IF Tail(actions) = <<>> THEN "reading" ELSE "dispatching"
    /\ err' = e
    /\ nhandled' = nhandled + 1
    /\ last_read' = last_read

\* an Err travels up through the ? of 148, 132 and ends run_receive_thread
Fail(e) ==
    /\ actions' = Tail(actions)
    /\ pc' = "err"
    /\ err' = e
    /\ nhandled' = nhandled + 1
    /\ last_read' = last_read

\* a panic unwinds the receive thread
Panic ==
    /\ actions' = Tail(actions)
    /\ pc' = "panic"
    /\ err' = err
    /\ nhandled' = nhandled + 1
    /\ last_read' = last_read

Dispatching(kind) == pc = "dispatching" /\ Head(actions) = kind

\* ServerSessionResult::OutboundResponse (144-146)
HandleOutbound ==
    /\ Dispatching("Outbound")
    /\ \E write_ok \in BOOLEAN :
          IF write_ok
          THEN /\ outbound' = outbound + 1
               /\ ev' = Ev("Outbound", "", FALSE, "ok")
               /\ Continue
          ELSE /\ outbound' = outbound
               /\ ev' = Ev("Outbound", "", FALSE, "Io")
               /\ Fail("Io")
    /\ UNCHANGED ctxvars

\* ServerSessionResult::UnhandleableMessageReceived (150-152)
HandleUnhandleable ==
    /\ Dispatching("Unhandleable")
    /\ ev' = Ev("Unhandleable", "", FALSE, "ok")
    /\ Continue
    /\ UNCHANGED <<ctxvars, outbound>>

\* handle_event: any other event (188-191)
HandleOtherEvent ==
    /\ Dispatching("Other")
    /\ ev' = Ev("Other", "", FALSE, "ok")
    /\ Continue
    /\ UNCHANGED <<ctxvars, outbound>>

\* variant: the hundredths are rounded to the nearest integer
FrameRateHundredthsRounded(frame_rate) == (frame_rate * 100 + 500) \div 1000

\* (frame_rate * 100.0) as i64, frame_rate in thousandths (175)
FrameRateHundredths(frame_rate) == (frame_rate * 100) \div 1000

\* video_frame_duration (173-180)
VideoFrameDuration(frame_rate) ==
    RatRecip(RatNew(FrameRateHundredths(frame_rate), 100))

\* variant: metadata without a frame rate clears what was stored
MetaAfterClearing(m, video_frame_rate) ==
    IF IsSome(video_frame_rate)
    THEN Some([video_frame_duration |->
                 VideoFrameDuration(Unwrap(video_frame_rate))])
    ELSE None

\* ctx.meta once the event has been handled (173-184)
MetaAfter(m, video_frame_rate) ==
    IF IsSome(video_frame_rate)
    THEN Some([video_frame_duration |->
                 VideoFrameDuration(Unwrap(video_frame_rate))])
    ELSE m

\* handle_event: StreamMetadataChanged (172-187)
HandleMetadata ==
    /\ Dispatching("Metadata")
    /\ \E video_frame_rate \in {None} \cup {Some(r) : r \in FrameRates} :
          IF IsSome(video_frame_rate)
          THEN /\ meta' = MetaAfter(meta, video_frame_rate)
               /\ ev' = [Ev("Metadata", "", FALSE, "ok")
                           EXCEPT !.frame_rate = video_frame_rate]
               /\ Continue
          ELSE /\ meta' = MetaAfter(meta, video_frame_rate)
               /\ ev' = Ev("Metadata", "", FALSE, "UnsupportedStream")
               /\ Fail("UnsupportedStream")
    /\ UNCHANGED <<audio_asc, audio_timestamp, video_dcr, video_dcr_bytes,
                   video_key_frame, heap, audio_writes, video_writes, outbound,
                   twin>>

----------------------------------------------------------------------------
(* receive_audio_packet, src/rtmp/mod.rs:195-261 *)

AudioPackets == {"AacSequenceHeader", "AacRawData", "Unknown"}

\* what codec.fill does with the ADTS bytes (221-226)
FillResults == {"all", "partial", "error"}

\* pcm_buffer = vec![0; 2048] (216)
PcmBufferLen == 2048

\* variant: the buffer length is not halved into samples per channel
FrameTimeWholeBuffer(pcm_len, sample_rate) == RatNew(pcm_len, sample_rate)

\* frame_time (237)
FrameTime(pcm_len, sample_rate) == RatNew(pcm_len \div 2, sample_rate)

\* variant: raw data before the sequence header is an error
AudioOutcomeHeaderRequired(packet, asc_parse, asc, fill, decode_ok, sample_rate, sink_ok) ==
    IF packet = "AacSequenceHeader"
    THEN IF IsSome(asc_parse) THEN "ok" ELSE "Aac"
    ELSE IF packet = "AacRawData"
    THEN IF ~IsSome(asc) THEN "Aac"
         ELSE IF fill = "error" THEN "panic"
         ELSE IF fill = "partial" THEN "drop_fill"
         ELSE IF ~decode_ok THEN "drop_decode"
         ELSE IF sample_rate # 44100 THEN "panic"
         ELSE IF ~sink_ok THEN "SourceSend"
         ELSE "write"
    ELSE "drop_unknown"

\* the path receive_audio_packet takes through its match (202-258)
AudioOutcome(packet, asc_parse, asc, fill, decode_ok, sample_rate, sink_ok) ==
    IF packet = "AacSequenceHeader"
    THEN IF IsSome(asc_parse) THEN "ok" ELSE "Aac"
    ELSE IF packet = "AacRawData"
    THEN IF ~IsSome(asc) THEN "drop_no_header"
         ELSE IF fill = "error" THEN "panic"
         ELSE IF fill = "partial" THEN "drop_fill"
         ELSE IF ~decode_ok THEN "drop_decode"
         ELSE IF sample_rate # 44100 THEN "panic"
         ELSE IF ~sink_ok THEN "SourceSend"
         ELSE "write"
    ELSE "drop_unknown"

\* variant: the sink is given the RTMP timestamp of the packet
AudioWriteTimestampRtmp(timestamp, clock) == RatNew(timestamp, 1000)

\* the timestamp write_audio is called with (244)
AudioWriteTimestamp(timestamp, clock) == clock

\* receive_audio_packet on the audio fields c of a ReceiveContext (202-258)
AudioFieldsAfter(c, timestamp, packet, asc_parse, fill, decode_ok, sample_rate, sink_ok) ==
    LET out == AudioOutcome(packet, asc_parse, c.audio_asc, fill,
                            decode_ok, sample_rate, sink_ok)
    IN  [audio_asc |-> IF out = "ok" THEN asc_parse ELSE c.audio_asc,
         audio_writes |->
             IF out \in {"write", "SourceSend"}
             THEN Append(c.audio_writes,
                         [timestamp |-> AudioWriteTimestamp(timestamp, c.audio_timestamp)])
             ELSE c.audio_writes,
         audio_timestamp |->
             IF out = "write"
             THEN RatAdd(c.audio_timestamp, FrameTime(PcmBufferLen, sample_rate))
             ELSE c.audio_timestamp]

ReceiveAudio ==
    /\ Dispatching("Audio")
    /\ \E packet \in AudioPackets, timestamp \in RtmpTimestamps,
          twin_timestamp \in TwinTimestamps,
          asc_parse \in {None} \cup {Some(a) : a \in Ascs},
          fill \in FillResults, decode_ok \in BOOLEAN,
          sample_rate \in SampleRates, sink_ok \in BOOLEAN :
          \* what the taken path never looks at is left at one value
          /\ packet # "AacSequenceHeader" => asc_parse = None
          /\ packet # "AacRawData" \/ ~IsSome(audio_asc) => fill = "all"
          /\ fill # "all" => decode_ok
          /\ ~decode_ok => sample_rate = 44100
          /\ sample_rate # 44100 => sink_ok
          /\ LET out == AudioOutcome(packet, asc_parse, audio_asc, fill,
                                     decode_ok, sample_rate, sink_ok)
                 decoded == out \in {"write", "SourceSend"}
                 after == AudioFieldsAfter(
                              [audio_asc |-> audio_asc,
                               audio_timestamp |-> audio_timestamp,
                               audio_writes |-> audio_writes],
                              timestamp, packet, asc_parse,
                              fill, decode_ok, sample_rate, sink_ok)
             IN  /\ ev' = Ev("Audio", packet, decoded, out)
                 /\ audio_asc' = after.audio_asc
                 /\ audio_writes' = after.audio_writes
                 /\ audio_timestamp' = after.audio_timestamp
                 /\ twin' = AudioFieldsAfter(twin, twin_timestamp, packet, asc_parse,
                                             fill, decode_ok, sample_rate, sink_ok)
                 /\ IF out \in {"Aac", "SourceSend"} THEN Fail(out)
                    ELSE IF out = "panic" THEN Panic
                    ELSE Continue
    /\ UNCHANGED <<meta, video_dcr, video_dcr_bytes, video_key_frame, heap,
                   video_writes, outbound>>

----------------------------------------------------------------------------
(* receive_video_packet, src/rtmp/mod.rs:263-359 *)

AvcPacketTypes == {"SequenceHeader", "Nalu"}

\* variant: the first DCR is kept, a later sequence header is ignored
DcrAfterHeaderKeepFirst(packet_type, dcr_parse, dcr) ==
    IF packet_type = "SequenceHeader" /\ IsSome(dcr_parse) /\ ~IsSome(dcr)
    THEN dcr_parse ELSE dcr

\* variant: a sequence header whose DCR does not parse clears the DCR held
DcrAfterHeaderClearing(packet_type, dcr_parse, dcr) ==
    IF packet_type = "SequenceHeader" THEN dcr_parse ELSE dcr

\* ctx.video_dcr once the sequence header, if any, has been looked at (278-294)
DcrAfterHeader(packet_type, dcr_parse, dcr) ==
    IF packet_type = "SequenceHeader" /\ IsSome(dcr_parse) THEN dcr_parse ELSE dcr

\* variant: a packet without metadata is skipped
VideoOutcomeSkipping(m, parse_ok, dcr, len, codec_ok, dump_ok) ==
    IF ~IsSome(m) THEN "drop_parse"
    ELSE IF ~parse_ok THEN "drop_parse"
    ELSE IF ~IsSome(dcr) THEN "drop_no_dcr"
    ELSE IF len > 0 /\ len < 50 THEN "panic"
    ELSE IF len > 0 /\ ~codec_ok THEN "panic"
    ELSE IF ~dump_ok THEN "panic"
    ELSE "frame"

\* the path receive_video_packet takes (268-356); dcr is the DCR held after
\* the sequence header has been looked at, len the length of packet.data
VideoOutcome(m, parse_ok, dcr, len, codec_ok, dump_ok) ==
    IF ~IsSome(m) THEN "MetadataNotYetSent"
    ELSE IF ~parse_ok THEN "drop_parse"
    ELSE IF ~IsSome(dcr) THEN "drop_no_dcr"
    ELSE IF len > 0 /\ len < 50 THEN "panic"
    ELSE IF len > 0 /\ ~codec_ok THEN "panic"
    ELSE IF ~dump_ok THEN "panic"
    ELSE "frame"

\* variant: every frame refers to the key frame in the slot
KeyFrameOfChained(is_key_frame, slot) == slot

\* key_frame of the frame being built (332-337)
KeyFrameOf(is_key_frame, slot) == IF is_key_frame THEN None ELSE slot

\* variant: only the first key frame is kept
KeyFrameSlotFirstOnly(is_key_frame, slot, frame) ==
    IF is_key_frame /\ ~IsSome(slot) THEN Some(frame) ELSE slot

\* ctx.video_key_frame once the frame has been built (349-351)
KeyFrameSlotAfter(is_key_frame, slot, frame) ==
    IF is_key_frame THEN Some(frame) ELSE slot

ReceiveVideo ==
    /\ Dispatching("Video")
    /\ \E timestamp \in RtmpTimestamps, parse_ok \in BOOLEAN,
          packet_type \in AvcPacketTypes,
          dcr_parse \in {None} \cup {Some(d) : d \in DcrIds},
          is_key_frame \in BOOLEAN, len \in VideoLens,
          codec_ok \in BOOLEAN, dump_ok \in BOOLEAN, sink_ok \in BOOLEAN :
          \* what the taken path never looks at is left at one value
          /\ ~IsSome(meta) => parse_ok
          /\ ~IsSome(meta) \/ ~parse_ok => packet_type = "Nalu"
          /\ packet_type # "SequenceHeader" => dcr_parse = None
          /\ (~IsSome(meta) \/ ~parse_ok
                \/ ~IsSome(DcrAfterHeader(packet_type, dcr_parse, video_dcr)))
               => is_key_frame /\ len = 0
          /\ len = 0 \/ len < 50 => codec_ok
          /\ (len > 0 /\ len < 50) \/ ~codec_ok => dump_ok
          /\ ~dump_ok => sink_ok
          /\ LET dcr == DcrAfterHeader(packet_type, dcr_parse, video_dcr)
                 out == VideoOutcome(meta, parse_ok, dcr, len, codec_ok, dump_ok)
                 parsed == out \notin {"MetadataNotYetSent", "drop_parse"}
                 ptr == Len(heap) + 1
                 frame == [frame_type |-> IF is_key_frame THEN "Key" ELSE "Inter",
                           composition_time |-> 0,
                           \* Bitstream::new(packet.data.clone(), dcr): the
                           \* payload bytes themselves are left out
                           bitstream |-> [dcr |-> Unwrap(dcr)],
                           duration_hint |-> Unwrap(meta).video_frame_duration,
                           key_frame |-> KeyFrameOf(is_key_frame, video_key_frame)]
             IN  /\ ev' = [Ev("Video",
                              IF out = "MetadataNotYetSent" THEN ""
                              ELSE IF ~parse_ok THEN "ParseError" ELSE packet_type,
                              out = "frame" /\ is_key_frame,
                              IF out = "frame" /\ ~sink_ok THEN "frame_rejected"
                              ELSE out)
                           EXCEPT !.dcr_parse = dcr_parse]
                 /\ video_dcr' = IF parsed THEN dcr ELSE video_dcr
                 /\ video_dcr_bytes' = IF parsed THEN dcr ELSE video_dcr_bytes
                 /\ IF out = "frame"
                    THEN /\ heap' = Append(heap, frame)
                         /\ video_key_frame' =
                               KeyFrameSlotAfter(is_key_frame, video_key_frame, ptr)
                         /\ video_writes' =
                               Append(video_writes,
                                      [timestamp |-> RatNew(timestamp, 1000),
                                       frame |-> ptr])
                    ELSE UNCHANGED <<heap, video_key_frame, video_writes>>
                 /\ IF out = "MetadataNotYetSent" THEN Fail(out)
                    ELSE IF out = "panic" THEN Panic
                    ELSE Continue
    /\ UNCHANGED <<meta, audio_asc, audio_timestamp, audio_writes, outbound,
                   twin>>

----------------------------------------------------------------------------
(* Frame handles and FrameId, src/video.rs:6-37.  An allocation lives as   *)
(* long as an Arc points to it; the allocator may hand a freed address out *)
(* again.  The serial number tells the allocations apart.                  *)

Addrs == 1..MaxAddr

\* Frame::id: FrameId(self.clone()) holds an Arc of its own (23-25, 28)
FrameId(a) == [ptr |-> a, serial |-> Unwrap(f_heap[a]).serial]

\* variant: the frames pointed to are compared
FrameIdEqByValue(x, y) ==
    Unwrap(f_heap[x.ptr]).value = Unwrap(f_heap[y.ptr]).value

\* impl PartialEq for FrameId: the two pointers are compared (30-36)
FrameIdEq(x, y) == x.ptr = y.ptr

\* strong count of the allocation at address a, given the handles and ids
StrongCount(arcs, ids, a) == arcs[a] + Cardinality({i \in ids : i.ptr = a})

\* the allocations left once those without any Arc have been freed
Reclaim(h, arcs, ids) ==
    [a \in Addrs |-> IF StrongCount(arcs, ids, a) = 0 THEN None ELSE h[a]]

FrameInit ==
    /\ f_heap = [a \in Addrs |-> None]
    /\ f_arcs = [a \in Addrs |-> 0]
    /\ f_ids = {}
    /\ f_next = 1

\* Arc::new(video::Frame { .. })
FrameAlloc ==
    /\ f_next <= MaxAllocs
    /\ \E a \in Addrs, v \in FrameValues :
          /\ f_heap[a] = None
          /\ f_heap' = [f_heap EXCEPT ![a] = Some([value |-> v, serial |-> f_next])]
          /\ f_arcs' = [f_arcs EXCEPT ![a] = 1]
    /\ f_next' = f_next + 1
    /\ UNCHANGED f_ids

\* Arc::clone of a handle
FrameClone ==
    /\ \E a \in Addrs :
          /\ f_arcs[a] > 0
          /\ f_arcs[a] < MaxArcs
          /\ f_arcs' = [f_arcs EXCEPT ![a] = @ + 1]
    /\ UNCHANGED <<f_heap, f_ids, f_next>>

\* drop of a handle
FrameDrop ==
    /\ \E a \in Addrs :
          /\ f_arcs[a] > 0
          /\ f_arcs' = [f_arcs EXCEPT ![a] = @ - 1]
          /\ f_heap' = Reclaim(f_heap, f_arcs', f_ids)
    /\ UNCHANGED <<f_ids, f_next>>

\* Frame::id on a handle (23-25)
FrameTakeId ==
    /\ \E a \in Addrs :
          /\ f_arcs[a] > 0
          /\ f_ids' = f_ids \cup {FrameId(a)}
    /\ UNCHANGED <<f_heap, f_arcs, f_next>>

\* drop of a FrameId
FrameIdDrop ==
    /\ \E i \in f_ids :
          /\ f_ids' = f_ids \ {i}
          /\ f_heap' = Reclaim(f_heap, f_arcs, f_ids')
    /\ UNCHANGED <<f_arcs, f_next>>

----------------------------------------------------------------------------
(* accept, src/rtmp/mod.rs:54-104, and the MOUNTPOINTS registry (29-39).   *)
(* Each await and each fallible call of accept is a step.                  *)

Conns == 1..MaxConns

\* lazy_static MOUNTPOINTS (29-35): "my_stream_endpoint" is registered and
\* its receiver forgotten
AcceptInit ==
    /\ a_pc = [c \in Conns |-> "handshake"]
    /\ a_result = [c \in Conns |-> "none"]
    /\ a_publish = [c \in Conns |-> "pending"]
    /\ a_log = [c \in Conns |-> <<>>]
    /\ a_loop = [c \in Conns |-> "none"]
    /\ mounts = [n \in MountNames |->
                   IF n = "my_stream_endpoint" THEN "listening" ELSE "unregistered"]

\* accept returns
Return(c, result) ==
    /\ a_pc' = [a_pc EXCEPT ![c] = "returned"]
    /\ a_result' = [a_result EXCEPT ![c] = result]

Goto(c, step) ==
    /\ a_pc' = [a_pc EXCEPT ![c] = step]
    /\ a_result' = a_result

\* Registry::connect: binds a publisher to a registered mountpoint that no
\* publisher holds
CanConnect(state) == state = "listening"

\* Registry::listen: registers a mountpoint that is not registered yet
CanListen(state) == state = "unregistered"

\* pub fn listen (37-39)
Listen ==
    /\ \E n \in MountNames :
          /\ CanListen(mounts[n])
          /\ mounts' = [mounts EXCEPT ![n] = "listening"]
    /\ UNCHANGED <<a_pc, a_result, a_publish, a_log, a_loop>>

\* incoming::handshake(..).await? (57)
AcceptHandshake(c) ==
    /\ a_pc[c] = "handshake"
    /\ \E r \in {"ok", "Io", "Handshake"} :
          IF r = "ok" THEN Goto(c, "setup_session") ELSE Return(c, r)
    /\ UNCHANGED <<a_publish, a_log, a_loop, mounts>>

\* incoming::setup_session(..).await? (58)
AcceptSetupSession(c) ==
    /\ a_pc[c] = "setup_session"
    /\ \E r \in {"ok", "Io", "Session"} :
          IF r = "ok" THEN Goto(c, "new_client") ELSE Return(c, r)
    /\ UNCHANGED <<a_publish, a_log, a_loop, mounts>>

\* incoming::handle_new_client(..).await? and the match on publish (59-75)
AcceptNewClient(c) ==
    /\ a_pc[c] = "new_client"
    /\ \E r \in {"ok", "Io", "Session"},
          publish \in {"none"} \cup MountNames :
          /\ r # "ok" => publish = "none"
          /\ IF r # "ok"
             THEN /\ Return(c, r)
                  /\ UNCHANGED <<a_publish, a_log>>
             ELSE IF publish = "none"
             THEN /\ Return(c, "ok")
                  /\ a_publish' = [a_publish EXCEPT ![c] = "none"]
                  /\ a_log' = a_log
             ELSE /\ Goto(c, "connect")
                  /\ a_publish' = [a_publish EXCEPT ![c] = publish]
                  /\ a_log' = [a_log EXCEPT ![c] = Append(@, "publish")]
    /\ UNCHANGED <<a_loop, mounts>>

\* variant: the connect error is not passed on
AfterConnectUnchecked(connected) == "accept_publish"

\* where accept goes after MOUNTPOINTS.connect(..)? (68)
AfterConnect(connected) == IF connected THEN "accept_publish" ELSE "returned"

\* MOUNTPOINTS.connect(&publish.app_name)? (68)
AcceptConnect(c) ==
    /\ a_pc[c] = "connect"
    /\ LET name == a_publish[c]
           connected == CanConnect(mounts[name])
       IN  /\ mounts' = IF connected THEN [mounts EXCEPT ![name] = "claimed"]
                        ELSE mounts
           /\ a_log' = [a_log EXCEPT ![c] =
                          Append(@, IF connected THEN "connect" ELSE "connect_failed")]
           /\ IF AfterConnect(connected) = "returned"
              THEN Return(c, "SourceConnect")
              ELSE Goto(c, AfterConnect(connected))
    /\ UNCHANGED <<a_publish, a_loop>>

\* the milestones accept has passed for connection c
Milestones(c) == {a_log[c][i] : i \in 1..Len(a_log[c])}

\* the SourceSend a connection holds is dropped; the registry may or may not
\* take the mountpoint back for a later publisher
Release(c) ==
    mounts' \in {mounts} \cup
               {[mounts EXCEPT ![n] = "listening"] :
                   n \in {m \in MountNames : m = a_publish[c] /\ "connect" \in Milestones(c)}}

\* incoming::accept_publish(..).await? (70)
AcceptPublish(c) ==
    /\ a_pc[c] = "accept_publish"
    /\ \E r \in {"ok", "Io", "Session"} :
          IF r = "ok"
          THEN /\ Goto(c, "codecs")
               /\ a_log' = [a_log EXCEPT ![c] = Append(@, "accept")]
               /\ mounts' = mounts
          ELSE /\ Return(c, r)
               /\ a_log' = a_log
               /\ Release(c)
    /\ UNCHANGED <<a_publish, a_loop>>

\* the decoders are set up (77-83): set_*_output_channels(2)? can fail,
\* H264Decoder::new().unwrap() can panic
AcceptCodecs(c) ==
    /\ a_pc[c] = "codecs"
    /\ \E r \in {"ok", "AacCodec", "panic"} :
          IF r = "ok"
          THEN Goto(c, "spawn") /\ mounts' = mounts
          ELSE Return(c, r) /\ Release(c)
    /\ UNCHANGED <<a_publish, a_log, a_loop>>

\* the ReceiveContext is built and the receive thread spawned (85-103)
AcceptSpawn(c) ==
    /\ a_pc[c] = "spawn"
    /\ Return(c, "ok")
    /\ a_log' = [a_log EXCEPT ![c] = Append(@, "loop")]
    /\ a_loop' = [a_loop EXCEPT ![c] = "running"]
    /\ UNCHANGED <<a_publish, mounts>>

\* run_receive_thread returns (124-136) and its ctx.source is dropped
LoopEnd(c) ==
    /\ a_loop[c] = "running"
    /\ a_loop' = [a_loop EXCEPT ![c] = "ended"]
    /\ Release(c)
    /\ UNCHANGED <<a_pc, a_result, a_publish, a_log>>

----------------------------------------------------------------------------
(* The receive threads of the connections accept has spawned, each with    *)
(* the ReceiveContext accept moved into it (85-101).  The handlers are the *)
(* ones above, applied to the fields of the connection's own context.      *)

\* the session fields of a ReceiveContext as accept builds it (85-97)
ContextNew ==
    [running |-> TRUE,
     meta |-> None,
     audio_asc |-> None,
     audio_timestamp |-> RatNew(0, 1),
     audio_writes |-> <<>>,
     video_dcr |-> None,
     video_key_frame |-> None,
     nframes |-> 0]

ConnsInit ==
    /\ ctxs = [c \in Conns |-> ContextNew]
    /\ dump_h264 = <<>>
    /\ steps = 0
    /\ actor = 0

\* connection c's thread takes the next session event (142-154)
ConnHandles(c) ==
    /\ ctxs[c].running
    /\ steps < MaxConnEvents
    /\ steps' = steps + 1
    /\ actor' = c

\* StreamMetadataChanged on connection c (172-187)
ConnMetadata(c) ==
    /\ ConnHandles(c)
    /\ \E video_frame_rate \in {None} \cup {Some(r) : r \in FrameRates} :
          ctxs' = [ctxs EXCEPT ![c].meta = MetaAfter(@, video_frame_rate),
                               ![c].running = IsSome(video_frame_rate)]
    /\ dump_h264' = dump_h264

\* AudioDataReceived on connection c (164-167, 195-261)
ConnAudio(c) ==
    /\ ConnHandles(c)
    /\ \E packet \in AudioPackets, timestamp \in RtmpTimestamps,
          asc_parse \in {None} \cup {Some(a) : a \in Ascs},
          decode_ok \in BOOLEAN :
          /\ packet # "AacSequenceHeader" => asc_parse = None
          /\ packet # "AacRawData" \/ ~IsSome(ctxs[c].audio_asc) => decode_ok
          /\ LET out == AudioOutcome(packet, asc_parse, ctxs[c].audio_asc, "all",
                                     decode_ok, 44100, TRUE)
                 after == AudioFieldsAfter(
                              [audio_asc |-> ctxs[c].audio_asc,
                               audio_timestamp |-> ctxs[c].audio_timestamp,
                               audio_writes |-> ctxs[c].audio_writes],
                              timestamp, packet, asc_parse, "all", decode_ok,
                              44100, TRUE)
             IN  ctxs' = [ctxs EXCEPT ![c].audio_asc = after.audio_asc,
                                      ![c].audio_timestamp = after.audio_timestamp,
                                      ![c].audio_writes = after.audio_writes,
                                      ![c].running = out \notin {"Aac", "SourceSend", "panic"}]
    /\ dump_h264' = dump_h264

\* VideoDataReceived on connection c (168-171, 263-359); a frame's bitstream
\* is appended to the file opened as "dump.h264" (311-324)
ConnVideo(c) ==
    /\ ConnHandles(c)
    /\ \E parse_ok \in BOOLEAN, packet_type \in AvcPacketTypes,
          dcr_parse \in {None} \cup {Some(d) : d \in DcrIds},
          is_key_frame \in BOOLEAN, dump_ok \in BOOLEAN :
          /\ ~IsSome(ctxs[c].meta) => parse_ok
          /\ ~IsSome(ctxs[c].meta) \/ ~parse_ok => packet_type = "Nalu"
          /\ packet_type # "SequenceHeader" => dcr_parse = None
          /\ (~IsSome(ctxs[c].meta) \/ ~parse_ok
                \/ ~IsSome(DcrAfterHeader(packet_type, dcr_parse, ctxs[c].video_dcr)))
               => is_key_frame /\ dump_ok
          /\ LET dcr == DcrAfterHeader(packet_type, dcr_parse, ctxs[c].video_dcr)
                 out == VideoOutcome(ctxs[c].meta, parse_ok, dcr, 0, TRUE, dump_ok)
                 parsed == out \notin {"MetadataNotYetSent", "drop_parse"}
                 ptr == ctxs[c].nframes + 1
             IN  /\ ctxs' = [ctxs EXCEPT
                       ![c].video_dcr = IF parsed THEN dcr ELSE @,
                       ![c].video_key_frame =
                           IF out = "frame"
                           THEN KeyFrameSlotAfter(is_key_frame, @, ptr) ELSE @,
                       ![c].nframes = IF out = "frame" THEN ptr ELSE @,
                       ![c].running = out \notin {"MetadataNotYetSent", "panic"}]
                 /\ dump_h264' = IF out = "frame" THEN Append(dump_h264, c)
                                  ELSE dump_h264

----------------------------------------------------------------------------
(* Specifications *)

vars == <<muxvars, rtmpvars, framevars, acceptvars, connvars>>

\* one connection's receive loop; the muxer is built and left alone
Init == RtmpNew /\ MuxNew(1000) /\ FrameInit /\ AcceptInit /\ ConnsInit

Next ==
    \/ ReadEof /\ UNCHANGED <<muxvars, framevars, acceptvars, connvars>>
    \/ ReadIoError /\ UNCHANGED <<muxvars, framevars, acceptvars, connvars>>
    \/ ReadSessionError /\ UNCHANGED <<muxvars, framevars, acceptvars, connvars>>
    \/ ReadBatch /\ UNCHANGED <<muxvars, framevars, acceptvars, connvars>>
    \/ HandleOutbound /\ UNCHANGED <<muxvars, framevars, acceptvars, connvars>>
    \/ HandleUnhandleable /\ UNCHANGED <<muxvars, framevars, acceptvars, connvars>>
    \/ HandleOtherEvent /\ UNCHANGED <<muxvars, framevars, acceptvars, connvars>>
    \/ HandleMetadata /\ UNCHANGED <<muxvars, framevars, acceptvars, connvars>>
    \/ ReceiveAudio /\ UNCHANGED <<muxvars, framevars, acceptvars, connvars>>
    \/ ReceiveVideo /\ UNCHANGED <<muxvars, framevars, acceptvars, connvars>>

Spec == Init /\ [][Next]_vars

\* one Mp4Mux; the connection is left alone
MuxInit == RtmpNew /\ FrameInit /\ AcceptInit /\ ConnsInit /\ \E ts \in Timescales : MuxNew(ts)

MuxNext ==
    \/ WriteTrackAudioShort /\ UNCHANGED <<rtmpvars, framevars, acceptvars, connvars>>
    \/ WriteTrackAudio /\ UNCHANGED <<rtmpvars, framevars, acceptvars, connvars>>
    \/ WriteTrackVideo /\ UNCHANGED <<rtmpvars, framevars, acceptvars, connvars>>

MuxSpec == MuxInit /\ [][MuxNext]_vars

\* the handles and ids of the frames; connection and muxer are left alone
FrameNext ==
    \/ FrameAlloc /\ UNCHANGED <<rtmpvars, muxvars, acceptvars, connvars>>
    \/ FrameClone /\ UNCHANGED <<rtmpvars, muxvars, acceptvars, connvars>>
    \/ FrameDrop /\ UNCHANGED <<rtmpvars, muxvars, acceptvars, connvars>>
    \/ FrameTakeId /\ UNCHANGED <<rtmpvars, muxvars, acceptvars, connvars>>
    \/ FrameIdDrop /\ UNCHANGED <<rtmpvars, muxvars, acceptvars, connvars>>

FrameSpec == Init /\ [][FrameNext]_vars

\* connections being accepted on the shared registry
AcceptNext ==
    \/ Listen /\ UNCHANGED <<rtmpvars, muxvars, framevars, connvars>>
    \/ \E c \in Conns : AcceptHandshake(c) /\ UNCHANGED <<rtmpvars, muxvars, framevars, connvars>>
    \/ \E c \in Conns : AcceptSetupSession(c) /\ UNCHANGED <<rtmpvars, muxvars, framevars, connvars>>
    \/ \E c \in Conns : AcceptNewClient(c) /\ UNCHANGED <<rtmpvars, muxvars, framevars, connvars>>
    \/ \E c \in Conns : AcceptConnect(c) /\ UNCHANGED <<rtmpvars, muxvars, framevars, connvars>>
    \/ \E c \in Conns : AcceptPublish(c) /\ UNCHANGED <<rtmpvars, muxvars, framevars, connvars>>
    \/ \E c \in Conns : AcceptCodecs(c) /\ UNCHANGED <<rtmpvars, muxvars, framevars, connvars>>
    \/ \E c \in Conns : AcceptSpawn(c) /\ UNCHANGED <<rtmpvars, muxvars, framevars, connvars>>
    \/ \E c \in Conns : LoopEnd(c) /\ UNCHANGED <<rtmpvars, muxvars, framevars, connvars>>

AcceptSpec == Init /\ [][AcceptNext]_vars

\* the receive threads of the connections, side by side
ConnsNext ==
    \/ \E c \in Conns : ConnMetadata(c) /\ UNCHANGED <<rtmpvars, muxvars, framevars, acceptvars>>
    \/ \E c \in Conns : ConnAudio(c) /\ UNCHANGED <<rtmpvars, muxvars, framevars, acceptvars>>
    \/ \E c \in Conns : ConnVideo(c) /\ UNCHANGED <<rtmpvars, muxvars, framevars, acceptvars>>

ConnsSpec == Init /\ [][ConnsNext]_vars

----------------------------------------------------------------------------
(* Properties of Mp4Mux (MuxSpec) *)

SegTrack(seg) == Traf(seg).tfhd_box.track_id

\* C1: the n-th write_track call returns a fragment whose mfhd
\* sequence_number is n, whichever track it is for.
C1_SequenceIsCallNumber ==
    /\ IsSome(segment) =>
          Unwrap(segment).moof_box.mfhd_box.sequence_number = calls
    /\ mux_pc = "active" => sequence = calls

C1_Witness ==
    /\ calls = 3
    /\ IsSome(segment)
    /\ SegTrack(Unwrap(segment)) = VIDEO_TRACK
    /\ last_frag[AUDIO_TRACK] # <<>>

\* C2: no write_track call makes audio_time or video_time smaller.
C2_TimesMonotonic ==
    [][RatLe(audio_time, audio_time') /\ RatLe(video_time, video_time')]_vars

C2_Witness ==
    /\ audio_time[1] > 0
    /\ video_time[1] > 0
    /\ calls >= 3

\* C3: per track, the emitted trun durations add up to what one call with
\* the summed duration emits from time 0, which is the summed duration
\* rounded into the timescale.
C3_NoCumulativeDrift ==
    \A t \in Tracks :
        /\ emitted[t] = DurationInMuxBase(MediaTimeNew(0, 1), given[t], timescale)
        /\ emitted[t] = RoundToBase(given[t], timescale)

C3_Witness ==
    /\ timescale = 1
    /\ calls = 3
    /\ given[AUDIO_TRACK] = <<1, 1>>
    /\ emitted[AUDIO_TRACK] = 1

\* C4: in every returned segment the trun data_offset is the serialized
\* size of the segment's moof box plus 8, and never the placeholder 0.
C4_DataOffset ==
    IsSome(segment) =>
        LET seg == Unwrap(segment)
            off == Traf(seg).trun_box.data_offset
        IN  /\ IsSome(off)
            /\ Unwrap(off) = MoofBoxSize(seg.moof_box) + 8
            /\ Unwrap(off) # 0

C4_Witness ==
    /\ IsSome(segment)
    /\ SegTrack(Unwrap(segment)) = AUDIO_TRACK
    /\ Unwrap(segment).mdat_boxes[1].len = 0
    /\ last_frag[VIDEO_TRACK] # <<>>

\* n is t, in ticks of base, rounded to a nearest integer
IsRounded(n, t, base) == 2 * Abs(n * t[2] - t[1] * base) <= t[2]

\* C21: an emitted audio fragment is on track 1 and its one sample has no
\* composition-time offset and no flags; an emitted video fragment is on
\* track 2 and its one sample has sample_depends_on 1, is a non-sync sample
\* exactly when the input is not a key frame, and carries the input
\* composition time rounded into the timescale.
C21_FragmentFields ==
    IsSome(segment) =>
        LET seg == Unwrap(segment)
            s == TrunSample(seg)
            td == Unwrap(track_data)
        IN  /\ Len(seg.moof_box.traf_boxes) = 1
            /\ Len(Traf(seg).trun_box.samples) = 1
            /\ IF td.kind = "Audio"
               THEN /\ SegTrack(seg) = 1
                    /\ s.composition_time_offset = None
                    /\ s.flags = None
               ELSE /\ SegTrack(seg) = 2
                    /\ IsSome(s.flags)
                    /\ Unwrap(s.flags).sample_depends_on = 1
                    /\ Unwrap(s.flags).sample_is_non_sync_sample = ~td.is_key_frame
                    /\ IsSome(s.composition_time_offset)
                    /\ IsRounded(Unwrap(s.composition_time_offset),
                                 td.composition_time, timescale)

C21_Witness ==
    /\ IsSome(segment)
    /\ Unwrap(track_data).kind = "Video"
    /\ Unwrap(track_data).is_key_frame
    /\ Unwrap(track_data).composition_time = <<1, 30>>
    /\ Unwrap(TrunSample(Unwrap(segment)).composition_time_offset) = 33
    /\ last_frag[AUDIO_TRACK] # <<>>

\* a write_track call that returned a fragment for the given track
Returned(track) ==
    /\ calls' = calls + 1
    /\ IsSome(segment')
    /\ SegTrack(Unwrap(segment')) = track

\* C17: per track the fragments tile the timeline: the first one starts at
\* base_media_decode_time 0, every later one where the track's previous
\* fragment ended (its base plus its emitted duration).
C17_FragmentsTile ==
    [][ \A t \in Tracks :
          Returned(t) =>
             Unwrap(Traf(Unwrap(segment')).tfdt_box).base_media_decode_time
               = IF last_frag[t] = <<>> THEN 0
                 ELSE last_frag[t][1] + last_frag[t][2] ]_vars

C17_Witness ==
    /\ calls = 4
    /\ timescale = 3
    /\ last_frag[AUDIO_TRACK] # <<>>
    /\ last_frag[VIDEO_TRACK] # <<>>
    /\ last_frag[VIDEO_TRACK][1] > 0
    /\ last_frag[VIDEO_TRACK][2] > 0

\* C18: an audio call advances audio_time by exactly its duration and leaves
\* video_time alone, a video call the other way round, and no call changes
\* the timescale.
C18_IndependentAccumulators ==
    [][ /\ timescale' = timescale
        /\ audio_time' = given'[AUDIO_TRACK]
        /\ video_time' = given'[VIDEO_TRACK]
        /\ Returned(AUDIO_TRACK) => video_time' = video_time
        /\ Returned(VIDEO_TRACK) => audio_time' = audio_time ]_vars

C18_Witness ==
    /\ calls = 4
    /\ audio_time[1] > 0
    /\ video_time[1] > 0
    /\ audio_time # video_time
    /\ audio_time = given[AUDIO_TRACK]

----------------------------------------------------------------------------
(* Properties of the receive loop (Spec) *)

\* pointers of the key frames allocated before the frame at pointer k
KeysBefore(k) == {j \in 1..(k - 1) : heap[j].frame_type = "Key"}

Max(S) == CHOOSE x \in S : \A y \in S : y <= x

\* the key frame emitted last before the frame at pointer k
LatestKeyBefore(k) ==
    IF KeysBefore(k) = {} THEN None ELSE Some(Max(KeysBefore(k)))

\* C5 as stated: every non-key frame given to the sink refers to the key
\* frame emitted last before it, every key frame refers to none, and the
\* slot holds the key frame emitted last.
C5_Original ==
    /\ \A k \in 1..Len(video_writes) :
          LET f == heap[video_writes[k].frame]
          IN  IF f.frame_type = "Key"
              THEN f.key_frame = None
              ELSE /\ IsSome(f.key_frame)
                   /\ f.key_frame = LatestKeyBefore(video_writes[k].frame)
    /\ video_key_frame = LatestKeyBefore(Len(heap) + 1)

\* C5 amended: a non-key frame refers to the key frame emitted last before
\* it, or to none when no key frame was emitted before it; a key frame
\* refers to none; the slot holds the key frame emitted last.
C5_KeyFrameReference ==
    /\ \A k \in 1..Len(video_writes) :
          LET f == heap[video_writes[k].frame]
          IN  IF f.frame_type = "Key"
              THEN f.key_frame = None
              ELSE f.key_frame = LatestKeyBefore(video_writes[k].frame)
    /\ video_key_frame = LatestKeyBefore(Len(heap) + 1)

C5_Witness ==
    \E k \in 1..Len(video_writes) :
        LET f == heap[video_writes[k].frame]
        IN  /\ f.frame_type = "Inter"
            /\ IsSome(f.key_frame)
            /\ Cardinality(KeysBefore(video_writes[k].frame)) = 2
            /\ Unwrap(f.key_frame) = 2

\* C7: a raw AAC packet handled while no sequence header is stored leaves
\* the loop running and the audio writes and timestamp as they were; with a
\* header stored a raw packet is never dropped for the missing header, and
\* one the decoder accepts is written to the sink.
C7_RawBeforeHeaderDropped ==
    [][ (nhandled' = nhandled + 1 /\ ev'.kind = "Audio"
            /\ ev'.packet = "AacRawData")
        => IF ~IsSome(audio_asc)
           THEN /\ pc' \in {"reading", "dispatching"}
                /\ err' = "none"
                /\ ev'.outcome = "drop_no_header"
                /\ UNCHANGED <<audio_writes, audio_timestamp>>
           ELSE /\ ev'.outcome # "drop_no_header"
                /\ ev'.decoded => Len(audio_writes') = Len(audio_writes) + 1 ]_vars

C7_Witness ==
    /\ ev.kind = "Audio"
    /\ ev.packet = "AacRawData"
    /\ ev.outcome = "drop_no_header"
    /\ pc \in {"reading", "dispatching"}
    /\ audio_writes = <<>>

\* C8: each decoded raw AAC packet makes exactly one write_audio call, and
\* the k-th call (from 0) carries the timestamp k*1024/44100.
C8_AudioClock ==
    [][ /\ Len(audio_writes') = Len(audio_writes)
              + (IF nhandled' # nhandled /\ ev'.kind = "Audio" /\ ev'.decoded
                 THEN 1 ELSE 0)
        /\ \A k \in 1..Len(audio_writes') :
              audio_writes'[k].timestamp = RatNew((k - 1) * 1024, 44100) ]_vars

C8_Witness ==
    /\ Len(audio_writes) = 3
    /\ audio_writes[1].timestamp = <<0, 1>>
    /\ audio_writes[3].timestamp = RatNew(2048, 44100)

\* C22: a second run of the connection, fed the same audio packets with the
\* same decode outcomes under other RTMP timestamps, has made the same
\* write_audio calls with the same timestamps and holds the same audio clock.
C22_AudioTimestampsIgnoreRtmp ==
    /\ twin.audio_writes = audio_writes
    /\ twin.audio_timestamp = audio_timestamp
    /\ twin.audio_asc = audio_asc

C22_Witness ==
    /\ Len(audio_writes) >= 2
    /\ Len(twin.audio_writes) >= 2
    /\ twin.audio_writes[2].timestamp = RatNew(1024, 44100)
    /\ RtmpTimestamps \cap TwinTimestamps = {}

\* the frames built by the step
NewFrames == (Len(heap) + 1)..Len(heap')

\* a frame built by the step has the frame duration of the metadata held
FramesTakeStoredDuration ==
    \A k \in NewFrames :
        /\ IsSome(meta)
        /\ meta' = meta
        /\ heap'[k].duration_hint = Unwrap(meta).video_frame_duration

\* the metadata event handled last carried a frame rate
MetadataStored == ev.kind = "Metadata" /\ IsSome(ev.frame_rate)

C9_SinkRejectionIsFatal ==
    ev.outcome \in {"SourceSend", "frame_rejected"}
    => pc = "err" /\ err = "SourceSend"

\* C10: a video packet handled while no metadata is stored ends the loop
\* with MetadataNotYetSent and changes neither the DCR, the key-frame slot
\* nor the sink; an audio packet never ends it that way.
C10_VideoNeedsMetadata ==
    [][ (pc = "dispatching" /\ nhandled' = nhandled + 1)
        => /\ (Head(actions) = "Video" /\ ~IsSome(meta))
                => /\ pc' = "err"
                   /\ err' = "MetadataNotYetSent"
                   /\ UNCHANGED <<video_dcr, video_dcr_bytes, video_key_frame,
                                  heap, video_writes>>
           /\ Head(actions) = "Audio" => err' # "MetadataNotYetSent" ]_vars

C10_Witness ==
    /\ pc = "err"
    /\ err = "MetadataNotYetSent"
    /\ ev.kind = "Video"
    /\ Len(audio_writes) >= 1

\* C11: a StreamMetadataChanged event without a video frame rate ends the
\* loop with UnsupportedStream and leaves the stored metadata as it was.
C11_MetadataWithoutFrameRate ==
    [][ (nhandled' = nhandled + 1 /\ ev'.kind = "Metadata"
            /\ ev'.outcome = "UnsupportedStream")
        => /\ pc' = "err"
           /\ err' = "UnsupportedStream"
           /\ meta' = meta ]_vars

C11_Witness ==
    /\ ev.kind = "Metadata"
    /\ ev.outcome = "UnsupportedStream"
    /\ pc = "err"
    /\ IsSome(meta)

\* the conditions C12 names: an unparseable audio or video packet, an audio
\* sequence header whose configuration does not parse, raw audio before the
\* header, an audio decode failure, a video packet with no DCR held
RecoverableOutcomes ==
    {"drop_unknown", "Aac", "drop_no_header", "drop_fill", "drop_decode",
     "drop_parse", "drop_no_dcr"}

\* C12: after a packet that met one of the packet-recoverable conditions the
\* loop is still running and no error has been returned.
C12_RecoverableConditions ==
    (ev.kind \in {"Audio", "Video"} /\ ev.outcome \in RecoverableOutcomes)
    => pc \in {"reading", "dispatching"} /\ err = "none"

\* C13: the loop has returned Ok exactly when its last read gave 0 bytes; a
\* read error has ended it with Io, a decode error with Session.
C13_LoopEndsOnZeroRead ==
    /\ pc = "ok" <=> last_read = "eof"
    /\ last_read = "bytes" => pc # "ok"
    /\ last_read = "io_error" => pc = "err" /\ err = "Io"
    /\ last_read = "session_error" => pc = "err" /\ err = "Session"

C13_Witness ==
    /\ pc = "ok"
    /\ last_read = "eof"
    /\ nhandled >= 1

\* C14 as stated: when the loop has ended with Ok or with an I/O error, no
\* session result of the last read is left unprocessed.
C14_Original ==
    (pc = "ok" \/ (pc = "err" /\ err = "Io")) => actions = <<>>

\* C14 amended: when a read has given 0 bytes or an I/O error, no session
\* result of an earlier read is left unprocessed.
C14_ReadOnlyAtTopOfLoop ==
    last_read \in {"eof", "io_error"} => actions = <<>>

C14_Witness ==
    /\ last_read = "io_error"
    /\ nhandled >= 2
    /\ actions = <<>>

\* the frame at pointer k is a key frame that refers to no frame
IsRootKeyFrame(k) ==
    /\ heap[k].frame_type = "Key"
    /\ heap[k].key_frame = None

\* C16: whatever a frame's key_frame and the key-frame slot point to is a key
\* frame whose own key_frame is None: references are one hop deep, no cycle.
C16_KeyFrameGraphFlat ==
    /\ \A k \in 1..Len(heap) :
          IsSome(heap[k].key_frame) =>
              /\ Unwrap(heap[k].key_frame) \in 1..(k - 1)
              /\ IsRootKeyFrame(Unwrap(heap[k].key_frame))
    /\ IsSome(video_key_frame) =>
          /\ Unwrap(video_key_frame) \in 1..Len(heap)
          /\ IsRootKeyFrame(Unwrap(video_key_frame))

C16_Witness ==
    /\ Len(heap) = 3
    /\ heap[2].frame_type = "Inter"
    /\ heap[2].key_frame = Some(1)
    /\ heap[3].frame_type = "Key"
    /\ video_key_frame = Some(3)

\* one session result has been handled
Handled == nhandled' = nhandled + 1

\* C19: the connection holds at most one DCR; a video sequence header whose
\* DCR parses installs or replaces it, one whose DCR does not parse and every
\* other packet leave it as it was; a frame carries the DCR held when it was
\* built, and the frames built earlier keep theirs.
C19_DcrLifecycle ==
    [][ /\ video_dcr' =
              IF Handled /\ ev'.kind = "Video" /\ ev'.packet = "SequenceHeader"
                         /\ IsSome(ev'.dcr_parse)
              THEN ev'.dcr_parse
              ELSE video_dcr
        /\ video_dcr_bytes' = video_dcr'
        /\ Len(video_dcr') <= 1
        /\ Len(heap') >= Len(heap)
        /\ SubSeq(heap', 1, Len(heap)) = heap
        /\ \A k \in (Len(heap) + 1)..Len(heap') :
              /\ IsSome(video_dcr')
              /\ heap'[k].bitstream.dcr = Unwrap(video_dcr') ]_vars

C19_Witness ==
    /\ Len(heap) = 3
    /\ heap[1].bitstream.dcr = 1
    /\ heap[2].bitstream.dcr = 2
    /\ heap[3].bitstream.dcr = 2
    /\ ev.packet = "SequenceHeader"
    /\ ev.dcr_parse = None
    /\ ev.outcome = "frame"
    /\ video_dcr = Some(2)

\* the ways a packet is dropped: video that does not parse or comes with no
\* DCR held; audio that is unknown, raw before the header, not consumed
\* whole by the decoder, or not decodable
Drops ==
    {"drop_parse", "drop_no_dcr",
     "drop_unknown", "drop_no_header", "drop_fill", "drop_decode"}

\* C20: a dropped packet makes no sink write and leaves the audio timestamp,
\* the metadata, the DCR and the key-frame slot as they were.
C20_DropChangesNothing ==
    [][ (Handled /\ ev'.outcome \in Drops)
        => /\ UNCHANGED <<audio_writes, video_writes>>
           /\ UNCHANGED <<audio_timestamp, meta, video_dcr, video_key_frame>>
           /\ pc' \in {"reading", "dispatching"} ]_vars

C20_Witness ==
    /\ ev.kind = "Video"
    /\ ev.packet = "SequenceHeader"
    /\ ev.outcome = "drop_no_dcr"
    /\ IsSome(meta)
    /\ Len(audio_writes) >= 1
    /\ audio_timestamp[1] > 0

\* C25: the results of one read are handled one at a time from the front of
\* the batch, and once the handling of one has failed nothing more is
\* handled: no outbound response is written and no sink write is made.
C25_BatchInOrderStopsAtFailure ==
    [][ /\ Handled =>
              /\ pc = "dispatching"
              /\ ev'.kind = Head(actions)
              /\ actions' = Tail(actions)
        /\ nhandled' \in {nhandled, nhandled + 1}
        /\ (err # "none" \/ pc \in {"err", "panic"}) =>
              UNCHANGED <<outbound, audio_writes, video_writes, nhandled, actions>> ]_vars

C25_Witness ==
    /\ pc = "err"
    /\ err = "SourceSend"
    /\ Len(actions) = 1
    /\ outbound >= 1
    /\ nhandled = 3

\* a video packet that parsed has been handled with metadata held and a DCR
\* held once its sequence header, if it is one, has been looked at
ParsedVideoWithDcr ==
    /\ Handled
    /\ ev'.kind = "Video"
    /\ ev'.packet \in AvcPacketTypes
    /\ IsSome(video_dcr')

\* C26: every video packet that parses while metadata and a DCR are held,
\* the sequence header that installs the DCR included, makes exactly one
\* frame and one write_video call with it, and a key frame among them
\* becomes the frame in the key-frame slot.
C26_OneFramePerParsedPacket ==
    [][ ParsedVideoWithDcr =>
          /\ Len(heap') = Len(heap) + 1
          /\ Len(video_writes') = Len(video_writes) + 1
          /\ video_writes'[Len(video_writes')].frame = Len(heap')
          /\ heap'[Len(heap')].frame_type = "Key"
                => video_key_frame' = Some(Len(heap')) ]_vars

----------------------------------------------------------------------------
(* Properties of accept (AcceptSpec) *)

IsPrefix(s, t) == Len(s) <= Len(t) /\ s = SubSeq(t, 1, Len(s))

\* C15: a receive loop is started only after, in this order, the client asked
\* to publish, the mountpoint connect succeeded and the publish acceptance
\* was sent; a client that does not publish gets Ok with no connect and no
\* loop; a failed connect returns SourceConnect with no acceptance sent and
\* no loop started.
C15_LoopOnlyAfterPublishAccepted ==
    \A c \in Conns :
        /\ \/ IsPrefix(a_log[c], <<"publish", "connect", "accept", "loop">>)
           \/ a_log[c] = <<"publish", "connect_failed">>
        /\ a_loop[c] # "none" => a_log[c] = <<"publish", "connect", "accept", "loop">>
        /\ a_publish[c] = "none" =>
               /\ a_pc[c] = "returned"
               /\ a_result[c] = "ok"
               /\ a_log[c] = <<>>
               /\ a_loop[c] = "none"
        /\ "connect_failed" \in Milestones(c) =>
               /\ a_pc[c] = "returned"
               /\ a_result[c] = "SourceConnect"
               /\ a_loop[c] = "none"

C15_Witness ==
    \E c, d \in Conns :
        /\ a_loop[c] = "running"
        /\ a_log[c] = <<"publish", "connect", "accept", "loop">>
        /\ a_publish[d] = a_publish[c]
        /\ a_result[d] = "SourceConnect"
        /\ a_log[d] = <<"publish", "connect_failed">>

----------------------------------------------------------------------------
(* Properties of the connections side by side (ConnsSpec) *)

\* the thread of connection c has handled an event in this step
Acted(c) == steps' = steps + 1 /\ actor' = c

\* C24: an event handled on one connection leaves the session state of every
\* other connection as it was, and what it writes outside its own context
\* (the registry apart) is written by no other connection.
C24_ConnectionsIsolated ==
    [][ \A c \in Conns :
          Acted(c) =>
             /\ \A d \in Conns \ {c} : ctxs'[d] = ctxs[d]
             /\ dump_h264' # dump_h264 =>
                    \A i \in 1..Len(dump_h264') : dump_h264'[i] = c ]_vars

----------------------------------------------------------------------------
(* Properties of the frame handles (FrameSpec) *)

\* the FrameIds there are: those held, and the one each handle would give
HeldIds == f_ids \cup {FrameId(a) : a \in {b \in Addrs : f_arcs[b] > 0}}

\* C6: two FrameIds are equal exactly when they come from the same Frame
\* allocation.
C6_FrameIdIsIdentity ==
    \A x, y \in HeldIds : FrameIdEq(x, y) <=> x.serial = y.serial

C6_Witness ==
    \E a, b \in Addrs :
        /\ a # b
        /\ f_arcs[a] = 2
        /\ f_arcs[b] > 0
        /\ Unwrap(f_heap[a]).value = Unwrap(f_heap[b]).value
        /\ FrameId(a) \in f_ids

====
